---- MODULE Spec2Model ----
(***************************************************************************)
(* Model of ktz.multiprocessing: Actors wired into a pipeline by a Relay.  *)
(* Each Actor is a process; adjacent groups share one queue; termination   *)
(* travels downstream as poison pills that are counted and turned into     *)
(* eol messages for the peers of the receiving group.                      *)
(*                                                                         *)
(* The main process (connect, start) , the log thread and every Actor are  *)
(* processes of the model; a step of an Actor ends at each queue operation *)
(* that can block (get on its inbox, put on its outbox or inbox) and at    *)
(* each call of a hook (startup, recv, shutdown).  The Actors are the ones *)
(* of the tests: Sender (first group), Proxy (inner groups) and Receiver   *)
(* (last group, each with its own results queue).                          *)
(***************************************************************************)
EXTENDS Integers, Sequences, FiniteSets, TLC

\* ---- bounds of the model ------------------------------------------------
MaxGroups == 3       \* arguments given to connect (positional + keyword)
MaxGroupSize == 2    \* Actors in one group
MaxActors == 4       \* Actors created by the caller
MaxN == 2            \* Sender(n): messages sent by each Sender
MaxMaxsize == 1      \* Relay(maxsize=k); 0 stands for None (unbounded)
MaxLoad == 64        \* size of a run (see Load)

Actors == 1..MaxActors

\* an attribute that was never assigned (AttributeError on access)
None == 0

\* ---- helpers --------------------------------------------------------------
RECURSIVE Sum(_)
Sum(s) == IF s = <<>> THEN 0 ELSE Head(s) + Sum(Tail(s))

RECURSIVE Flatten(_)
Flatten(ss) == IF ss = <<>> THEN <<>> ELSE Head(ss) \o Flatten(Tail(ss))

Range(s) == {s[i] : i \in 1..Len(s)}

Count(s, x) == Cardinality({i \in 1..Len(s) : s[i] = x})

\* equality of two sequences as multisets
SameBag(s, t) ==
    /\ Len(s) = Len(t)
    /\ \A i \in 1..Len(s) : Count(s, s[i]) = Count(t, s[i])

SubBag(s, t) == \A x \in Range(s) : Count(s, x) <= Count(t, x)

IsPrefix(s, t) == Len(s) <= Len(t) /\ s = SubSeq(t, 1, Len(s))

\* ---- Control --------------------------------------------------------------
poison == "poison"
eol == "eol"
HELO == "hello!"

\* what travels on a queue: a Control member or an (args, kwargs) payload;
\* src names the putting Actor (not part of the pickled object)
PoisonAsEol(a) == [k |-> eol, v |-> 0, src |-> a]

Poison(a) == [k |-> poison, v |-> 0, src |-> a]
Eol(a) == [k |-> eol, v |-> 0, src |-> a]
Msg(x, a) == [k |-> "msg", v |-> x, src |-> a]

VARIABLES
    call,       \* the pending call of Relay.connect: [args, kwargs]
    cfg,        \* what the caller constructed: Relay(maxsize), Actor classes
    rpc,        \* position of the main process
    procs,      \* Relay.start: procs of _start_actors / _join_actors
    groups,     \* Relay.groups: sequence of <<name, list of Actors>>
    attr,       \* per Actor: _inbox, _outbox, _peer_count, _expected_poison,
                \*   _received_poison (id of the shared Value), group
    chan,       \* the queues allocated by connect
    value,      \* the mp.Value counters allocated by connect
    pc,         \* per Actor: position inside run()
    loc,        \* per Actor: local variables of run()/loop()
    results,    \* per Receiver: its results queue
    q_log,      \* Relay._q_log
    t_log,      \* Relay._t_log
    handler,    \* the Handler given to start: where run() is, and the
                \*   results set of the AggregatorHandler
    hist        \* history: what happened so far

vars == <<call, cfg, rpc, procs, groups, attr, chan, value, pc, loc,
          results, q_log, t_log, handler, hist>>

\* ---- what the caller constructs -------------------------------------------
\* group sizes of the arguments handed to connect
Topologies ==
    {s \in UNION {[1..g -> 0..MaxGroupSize] : g \in 0..MaxGroups} :
        Sum(s) <= MaxActors}

\* the Actors of the i-th argument: created in argument order
Members(sizes, i) ==
    [j \in 1..sizes[i] |-> Sum(SubSeq(sizes, 1, i - 1)) + j]

\* an argument of connect is an Actor or an iterable of Actors
Bare(a) == [iter |-> FALSE, actor |-> a]
List(s) == [iter |-> TRUE, items |-> s]

Arg(sizes, i, bare) ==
    IF bare /\ sizes[i] = 1 THEN Bare(Members(sizes, i)[1])
    ELSE List(Members(sizes, i))

\* f"group-{i}"
GroupNames ==
    <<"group-0", "group-1", "group-2", "group-3", "group-4", "group-5">>
AutoName(i) == GroupNames[i + 1]

\* names the caller gives to keyword groups
KwNames == <<"prod", "prep", "post", "cons", "more", "last">>

\* the test Actors: Sender in the first group, Receiver in the last one,
\* Proxy in between
ClassOf(sizes, i) ==
    IF i = 1 THEN "Sender"
    ELSE IF i = Len(sizes) THEN "Receiver" ELSE "Proxy"

GroupOfActor(sizes, a) ==
    CHOOSE i \in 1..Len(sizes) : a \in Range(Members(sizes, i))

NoAttr ==
    [inbox |-> None, outbox |-> None, peer_count |-> None,
     expected_poison |-> None, received_poison |-> None, group |-> ""]

NoData == 0 - 1
NoLoc == [x |-> 0, data |-> NoData, todo |-> 0]

\* per Actor: how often startup() and shutdown() were called, how many poison
\* pills it has put, how many poison pills and eols it has dequeued, and the
\* payloads it has passed to send() and got in recv(), in order, and the
\* levels of its log() calls
NoActs == [startup |-> 0, shutdown |-> 0, poisoned |-> 0,
           gotpoison |-> 0, goteol |-> 0, sent |-> <<>>, recv |-> <<>>,
           logged |-> <<>>]

\* no hook of any Actor raises
NoFault == [actor |-> 0, hook |-> ""]

\* what the caller constructs: Relay(maxsize=k), Sender(n=n), the Receivers
\* with send_on_startup and send_on_shutdown, classes[i] the class of the
\* Actors of the i-th argument; no Handler (handler_cls is the class of the
\* one given to start, if any), no hook that raises
Cfg(sizes, classes, k, n, marks, logs) ==
    [maxsize |-> k, n |-> n,
     start_msg |-> marks, stop_msg |-> marks,
     log_records |-> logs,
     handler |-> FALSE,
     handler_cls |-> "AggregatorHandler",
     fault |-> NoFault,
     cls |-> [a \in 1..Sum(sizes) |-> classes[GroupOfActor(sizes, a)]]]

\* the state after the caller has built the Actors and the Relay and is about
\* to call connect with npos positional and Len(sizes) - npos keyword groups
\* named kwnames
InitCfg(sizes, npos, bare, kwnames, c) ==
    /\ call = [args |-> [i \in 1..npos |-> Arg(sizes, i, bare)],
               kwargs |-> [i \in 1..(Len(sizes) - npos) |->
                             <<kwnames[i], Arg(sizes, npos + i, bare)>>]]
    /\ cfg = c
    /\ rpc = "new"
    /\ procs = <<>>
    /\ groups = <<>>
    /\ attr = [a \in 1..Sum(sizes) |-> NoAttr]
    /\ chan = <<>>
    /\ value = <<>>
    /\ pc = [a \in 1..Sum(sizes) |-> "created"]
    /\ loc = [a \in 1..Sum(sizes) |-> NoLoc]
    /\ results = [a \in 1..Sum(sizes) |-> <<>>]
    /\ q_log = <<>>
    /\ t_log = "none"
    /\ handler = [pc |-> "none", results |-> {}, early |-> FALSE]
    /\ hist = [eols |-> <<>>, emitted |-> <<>>,
               act |-> [a \in 1..Sum(sizes) |-> NoActs]]

\* the test Actors in their places, the keyword groups named as in the script
InitOf(sizes, npos, bare, k, n, marks, logs) ==
    InitCfg(sizes, npos, bare, KwNames,
            Cfg(sizes, [i \in 1..Len(sizes) |-> ClassOf(sizes, i)],
                k, n, marks, logs))

\* the Actors of the largest group
RECURSIVE Widest(_)
Widest(sizes) ==
    IF sizes = <<>> THEN 0
    ELSE IF Head(sizes) > Widest(Tail(sizes)) THEN Head(sizes)
    ELSE Widest(Tail(sizes))

\* the size of a run: the send() calls (each message of each Sender crosses
\* each queue) times the number of Actors, times the pairs of Actors that
\* share a queue on one side
Load(sizes, n) ==
    IF Len(sizes) < 2 THEN 0
    ELSE n * sizes[1] * (Len(sizes) - 1) * Sum(sizes)
           * Widest(sizes) * Widest(sizes)

\* the groups of a pipeline that is run are not empty
NonEmpty(sizes) == \A i \in 1..Len(sizes) : sizes[i] >= 1

\* test_handler: a Handler is given to start and the Receiver is built with
\* results=handler.q, send_on_shutdown=True
HandlerCfg(c) ==
    [c EXCEPT !.handler = TRUE, !.start_msg = FALSE, !.stop_msg = TRUE]

\* pipelines from one producer to one terminal Receiver, run with a Handler
\* on unbounded queues (Relay())
InitHandler ==
    \E sizes \in Topologies, n \in 0..MaxN :
        /\ Len(sizes) >= 2
        /\ NonEmpty(sizes)
        /\ sizes[1] = 1
        /\ sizes[Len(sizes)] = 1
        /\ Load(sizes, n) <= MaxLoad
        /\ InitCfg(sizes, Len(sizes), FALSE, KwNames,
                   HandlerCfg(Cfg(sizes,
                                  [i \in 1..Len(sizes) |-> ClassOf(sizes, i)],
                                  0, n, FALSE, FALSE)))

\* pipelines of positional groups, the Receivers built as in test_1_1 with
\* send_on_startup and send_on_shutdown, or run with a Handler; the records
\* of Actor.log are not traced
Init ==
    \/ \E sizes \in Topologies, bare \in BOOLEAN,
          k \in 0..MaxMaxsize, n \in 0..MaxN :
           /\ NonEmpty(sizes)
           /\ Load(sizes, n) <= MaxLoad
           /\ InitOf(sizes, Len(sizes), bare, k, n, TRUE, FALSE)
    \/ InitHandler

Created == DOMAIN pc

\* ---- Relay.connect --------------------------------------------------------
ensure_list(obj) == IF obj.iter THEN obj.items ELSE <<obj.actor>>

HasKey(d, key) == \E i \in 1..Len(d) : d[i][1] = key

\* d[key] = v on an insertion-ordered dict
DictSet(d, key, v) ==
    IF HasKey(d, key)
    THEN [i \in 1..Len(d) |-> IF d[i][1] = key THEN <<key, v>> ELSE d[i]]
    ELSE Append(d, <<key, v>>)

\* d | kw
RECURSIVE DictMerge(_, _)
DictMerge(d, kw) ==
    IF kw = <<>> THEN d
    ELSE DictMerge(DictSet(d, Head(kw)[1], Head(kw)[2]), Tail(kw))

\* {f"group-{i}": a for i, a in enumerate(args)} | kwargs, then ensure_list
MakeGroups(args, kwargs) ==
    LET auto == [i \in 1..Len(args) |-> <<AutoName(i - 1), args[i]>>]
        merged == DictMerge(auto, kwargs)
    IN  [i \in 1..Len(merged) |-> <<merged[i][1], ensure_list(merged[i][2])>>]

\* assert len(args) + len(kwargs) > 1
EnoughGroupsOffByOne(nargs, nkwargs) == nargs + nkwargs >= 1

EnoughGroups(nargs, nkwargs) == nargs + nkwargs > 1

LastIndex(s, a) ==
    CHOOSE i \in 1..Len(s) : s[i] = a /\ \A j \in (i + 1)..Len(s) : s[j] # a

\* the body of the loop over zip(instances, instances[1:]) for the pair
\* (sender, receiver), with q the new queue and nv the Values allocated so far
WirePairSwapped(at, sender, receiver, q, nv) ==
    LET out == [a \in DOMAIN at |->
                  IF a \in Range(sender)
                  THEN [at[a] EXCEPT !.inbox = q] ELSE at[a]]
    IN  [a \in DOMAIN at |->
           IF a \in Range(receiver)
           THEN [out[a] EXCEPT !.outbox = q,
                               !.peer_count = Len(receiver),
                               !.expected_poison = Len(sender),
                               !.received_poison = nv + LastIndex(receiver, a)]
           ELSE out[a]]

WirePairCountsSwapped(at, sender, receiver, q, nv) ==
    LET out == [a \in DOMAIN at |->
                  IF a \in Range(sender)
                  THEN [at[a] EXCEPT !.outbox = q] ELSE at[a]]
    IN  [a \in DOMAIN at |->
           IF a \in Range(receiver)
           THEN [out[a] EXCEPT !.inbox = q,
                               !.peer_count = Len(sender),
                               !.expected_poison = Len(receiver),
                               !.received_poison = nv + LastIndex(receiver, a)]
           ELSE out[a]]

WirePair(at, sender, receiver, q, nv) ==
    LET out == [a \in DOMAIN at |->
                  IF a \in Range(sender)
                  THEN [at[a] EXCEPT !.outbox = q] ELSE at[a]]
    IN  [a \in DOMAIN at |->
           IF a \in Range(receiver)
           THEN [out[a] EXCEPT !.inbox = q,
                               !.peer_count = Len(receiver),
                               !.expected_poison = Len(sender),
                               !.received_poison = nv + LastIndex(receiver, a)]
           ELSE out[a]]

\* for sender, receiver in zip(instances, instances[1:]): ...
RECURSIVE Wire(_, _, _, _)
Wire(instances, i, at, nv) ==
    IF i >= Len(instances) THEN [attr |-> at, nv |-> nv]
    ELSE Wire(instances, i + 1,
              WirePair(at, instances[i], instances[i + 1], i, nv),
              nv + Len(instances[i + 1]))

NoCall == [args |-> <<>>, kwargs |-> <<>>]

Connect ==
    /\ rpc = "new"
    /\ call' = NoCall
    /\ IF EnoughGroups(Len(call.args), Len(call.kwargs))
       THEN LET gs == MakeGroups(call.args, call.kwargs)
                instances == [i \in 1..Len(gs) |-> gs[i][2]]
                w == Wire(instances, 1, attr, 0)
                nq == IF Len(instances) = 0 THEN 0 ELSE Len(instances) - 1
            IN  /\ attr' = w.attr
                /\ chan' = [q \in 1..nq |-> <<>>]
                /\ value' = [c \in 1..w.nv |-> 0]
                /\ groups' = gs
                /\ hist' = [hist EXCEPT !.eols = [q \in 1..nq |-> 0]]
                /\ rpc' = "connected"
       ELSE /\ rpc' = "AssertionError"
            /\ UNCHANGED <<attr, chan, value, groups, hist>>
    /\ UNCHANGED <<cfg, handler, procs, pc, loc, results, q_log,
                   t_log>>

\* ---- queues ---------------------------------------------------------------
\* ctx.Queue(self.maxsize) if self.maxsize else ctx.Queue(): put blocks while
\* a bounded queue holds maxsize items
FullOffByOne(q, maxsize) == maxsize # 0 /\ Len(q) > maxsize

Full(q, maxsize) == maxsize # 0 /\ Len(q) >= maxsize

QPutFront(q, item) == <<item>> \o q

QRestLast(q) == SubSeq(q, 1, Len(q) - 1)

QPut(q, item) == Append(q, item)
QGet(q) == Head(q)
QRest(q) == Tail(q)

\* ---- Actor ----------------------------------------------------------------
sender(a) == attr[a].outbox # None
receiver(a) == attr[a].inbox # None

DEBUG == 10
INFO == 20

\* Actor.log: one record per call on the log queue. The log queue is
\* unbounded, so log never blocks and the pipeline does not depend on it; the
\* records are kept only in runs built with cfg.log_records.
LogPut(q, a, levels) ==
    IF ~cfg.log_records THEN q
    ELSE q \o [i \in 1..Len(levels) |->
            [k |-> "record", level |-> levels[i], actor |-> a]]

\* Control.eol on the log queue
LogEol == [k |-> eol, level |-> 0, actor |-> 0]

Bump(a, field) == [hist EXCEPT !.act[a][field] = @ + 1]

\* the log() calls of the Actor a, kept with the records
Logged(h, a, levels) ==
    [h EXCEPT !.act[a].logged = IF cfg.log_records THEN @ \o levels ELSE @]

\* the hook of the Actor a is one that raises an exception when called
Raises(a, hook) == cfg.fault.actor = a /\ cfg.fault.hook = hook

\* where run() is once loop() is entered: Sender.loop returns at once when
\* range(self.n) is empty, the default loop starts with assert self.receiver
EnterLoopUnchecked(a) ==
    IF Raises(a, "loop") THEN "crashed"
    ELSE IF cfg.cls[a] = "Sender"
    THEN IF cfg.n = 0 THEN "leave" ELSE "loop"
    ELSE "loop"

EnterLoopNoUpstream(a) ==
    IF Raises(a, "loop") THEN "crashed"
    ELSE IF cfg.cls[a] = "Sender"
    THEN IF cfg.n = 0 THEN "leave" ELSE "loop"
    ELSE IF receiver(a)
    THEN IF attr[a].expected_poison = 0 THEN "leave" ELSE "loop"
    ELSE "crashed"

EnterLoop(a) ==
    IF Raises(a, "loop") THEN "crashed"
    ELSE IF cfg.cls[a] = "Sender"
    THEN IF cfg.n = 0 THEN "leave" ELSE "loop"
    ELSE IF receiver(a) THEN "loop" ELSE "crashed"

\* run(): log, startup(), log, and the entry of loop()
StartupSkipped(a) ==
    /\ pc[a] = "startup"
    /\ q_log' = LogPut(q_log, a, <<INFO, DEBUG>>)
    /\ hist' = Logged(hist, a, <<INFO, DEBUG>>)
    /\ pc' = [pc EXCEPT ![a] = EnterLoop(a)]
    /\ UNCHANGED <<call, cfg, handler, rpc, procs, groups, attr, chan, value,
                   loc, t_log, results>>

Startup(a) ==
    /\ pc[a] = "startup"
    /\ IF Raises(a, "startup")
       THEN /\ q_log' = LogPut(q_log, a, <<INFO>>)
            /\ hist' = Logged(Bump(a, "startup"), a, <<INFO>>)
            /\ pc' = [pc EXCEPT ![a] = "crashed"]
            /\ UNCHANGED results
       ELSE /\ q_log' = LogPut(q_log, a, <<INFO, DEBUG>>)
            /\ results' = IF cfg.cls[a] = "Receiver" /\ cfg.start_msg
                          THEN [results EXCEPT ![a] = QPut(@, HELO)]
                          ELSE results
            /\ hist' = Logged(Bump(a, "startup"), a, <<INFO, DEBUG>>)
            /\ pc' = [pc EXCEPT ![a] = EnterLoop(a)]
    /\ UNCHANGED <<call, cfg, handler, rpc, procs, groups, attr, chan, value,
                   loc, t_log>>

\* Sender.loop: one self.send(x) of for x in range(self.n); the loop returns
\* with the last of them
SenderLoop(a) ==
    /\ pc[a] = "loop"
    /\ cfg.cls[a] = "Sender"
    /\ IF sender(a)
       THEN LET q == attr[a].outbox IN
            /\ ~Full(chan[q], cfg.maxsize)
            /\ chan' = [chan EXCEPT ![q] = QPut(@, Msg(loc[a].x, a))]
            /\ hist' = [hist EXCEPT !.act[a].sent = Append(@, loc[a].x)]
            /\ loc' = [loc EXCEPT ![a].x = @ + 1]
            /\ pc' = [pc EXCEPT ![a] = IF loc[a].x + 1 < cfg.n
                                        THEN "loop" ELSE "leave"]
       ELSE /\ pc' = [pc EXCEPT ![a] = "crashed"]
            /\ UNCHANGED <<chan, hist, loc>>
    /\ UNCHANGED <<call, cfg, handler, rpc, procs, groups, attr, value,
                   results, q_log, t_log>>

\* where the default loop goes with the dequeued data
DispatchEndsOnPoison(data) ==
    IF data.k = poison THEN "leave"
    ELSE IF data.k = eol THEN "leave" ELSE "recv"

DispatchEolAsPoison(data) ==
    IF data.k = poison \/ data.k = eol THEN "poison" ELSE "recv"

DispatchAllButPoison(data) ==
    IF data.k = poison THEN "poison" ELSE "recv"

Dispatch(data) ==
    IF data.k = poison THEN "poison"
    ELSE IF data.k = eol THEN "leave" ELSE "recv"

\* Actor.loop: data = self._inbox.get() and the two tests on it
LoopGetLast(a) ==
    /\ pc[a] = "loop"
    /\ cfg.cls[a] # "Sender"
    /\ LET q == attr[a].inbox
           data == chan[q][Len(chan[q])]
       IN  /\ chan[q] # <<>>
           /\ chan' = [chan EXCEPT ![q] = SubSeq(@, 1, Len(@) - 1)]
           /\ pc' = [pc EXCEPT ![a] = Dispatch(data)]
           /\ loc' = [loc EXCEPT ![a].data =
                                    IF data.k = "msg" THEN data.v ELSE NoData]
           /\ hist' = IF data.k = poison THEN Bump(a, "gotpoison")
                      ELSE IF data.k = eol THEN Bump(a, "goteol")
                      ELSE hist
    /\ UNCHANGED <<call, cfg, handler, rpc, procs, groups, attr, value,
                   results, q_log, t_log>>

LoopGet(a) ==
    /\ pc[a] = "loop"
    /\ cfg.cls[a] # "Sender"
    /\ LET q == attr[a].inbox
           data == QGet(chan[q])
       IN  /\ chan[q] # <<>>
           /\ chan' = [chan EXCEPT ![q] = QRest(@)]
           /\ pc' = [pc EXCEPT ![a] = Dispatch(data)]
           /\ loc' = [loc EXCEPT ![a].data =
                                    IF data.k = "msg" THEN data.v ELSE NoData]
           /\ hist' = IF data.k = poison THEN Bump(a, "gotpoison")
                      ELSE IF data.k = eol THEN Bump(a, "goteol")
                      ELSE hist
    /\ UNCHANGED <<call, cfg, handler, rpc, procs, groups, attr, value,
                   results, q_log, t_log>>

\* the Actor inside "with poison.get_lock()" of the Value c, if any
LockHolders(c) ==
    {b \in Created : pc[b] = "puteol" /\ attr[b].received_poison = c}

\* if poison.value == expected
ReachedLate(v, expected) == v = expected + 1

Reached(v, expected) == v = expected

\* Actor._add_poison up to the first put
AddPoisonFirst(a) ==
    /\ pc[a] = "poison"
    /\ LET c == attr[a].received_poison
           v == value[c] + 1
       IN  /\ LockHolders(c) = {}
           /\ value' = [value EXCEPT ![c] = v]
           /\ IF v >= 1 /\ attr[a].peer_count > 0
              THEN /\ pc' = [pc EXCEPT ![a] = "puteol"]
                   /\ loc' = [loc EXCEPT ![a].todo = attr[a].peer_count]
              ELSE /\ pc' = [pc EXCEPT ![a] = "loop"]
                   /\ UNCHANGED loc
    /\ q_log' = LogPut(q_log, a, <<DEBUG>>)
    /\ hist' = Logged(hist, a, <<DEBUG>>)
    /\ UNCHANGED <<call, cfg, handler, rpc, procs, groups, attr, chan,
                   results, t_log>>

AddPoisonOneMore(a) ==
    /\ pc[a] = "poison"
    /\ LET c == attr[a].received_poison
           v == value[c] + 1
       IN  /\ LockHolders(c) = {}
           /\ value' = [value EXCEPT ![c] = v]
           /\ IF Reached(v, attr[a].expected_poison) /\ attr[a].peer_count > 0
              THEN /\ pc' = [pc EXCEPT ![a] = "puteol"]
                   /\ loc' = [loc EXCEPT ![a].todo = attr[a].peer_count + 1]
              ELSE /\ pc' = [pc EXCEPT ![a] = "loop"]
                   /\ UNCHANGED loc
    /\ q_log' = LogPut(q_log, a, <<DEBUG>>)
    /\ hist' = Logged(hist, a, <<DEBUG>>)
    /\ UNCHANGED <<call, cfg, handler, rpc, procs, groups, attr, chan,
                   results, t_log>>

AddPoison(a) ==
    /\ pc[a] = "poison"
    /\ LET c == attr[a].received_poison
           v == value[c] + 1
       IN  /\ LockHolders(c) = {}
           /\ value' = [value EXCEPT ![c] = v]
           /\ IF Reached(v, attr[a].expected_poison) /\ attr[a].peer_count > 0
              THEN /\ pc' = [pc EXCEPT ![a] = "puteol"]
                   /\ loc' = [loc EXCEPT ![a].todo = attr[a].peer_count]
              ELSE /\ pc' = [pc EXCEPT ![a] = "loop"]
                   /\ UNCHANGED loc
    /\ q_log' = LogPut(q_log, a, <<DEBUG>>)
    /\ hist' = Logged(hist, a, <<DEBUG>>)
    /\ UNCHANGED <<call, cfg, handler, rpc, procs, groups, attr, chan,
                   results, t_log>>

\* Actor._add_poison: one self._inbox.put(Control.eol), the lock still held
PutEol(a) ==
    /\ pc[a] = "puteol"
    /\ LET q == attr[a].inbox IN
       /\ ~Full(chan[q], cfg.maxsize)
       /\ chan' = [chan EXCEPT ![q] = QPut(@, Eol(a))]
       /\ hist' = [hist EXCEPT !.eols[q] = @ + 1]
    /\ loc' = [loc EXCEPT ![a].todo = @ - 1]
    /\ pc' = [pc EXCEPT ![a] = IF loc[a].todo = 1 THEN "loop" ELSE "puteol"]
    /\ UNCHANGED <<call, cfg, handler, rpc, procs, groups, attr, value,
                   results, q_log, t_log>>

\* self.recv(*args, **kwargs): Receiver.recv puts the message on its results
\* queue, Proxy.recv sends msg + 1
RecvUnchanged(a) ==
    /\ pc[a] = "recv"
    /\ LET msg == loc[a].data
           got == [hist EXCEPT !.act[a].recv = Append(@, msg)]
       IN
       IF Raises(a, "recv")
       THEN /\ pc' = [pc EXCEPT ![a] = "crashed"]
            /\ hist' = got
            /\ UNCHANGED <<chan, results>>
       ELSE IF cfg.cls[a] = "Receiver"
       THEN /\ results' = [results EXCEPT ![a] = QPut(@, msg)]
            /\ pc' = [pc EXCEPT ![a] = "loop"]
            /\ hist' = got
            /\ UNCHANGED chan
       ELSE IF sender(a)
       THEN LET q == attr[a].outbox IN
            /\ ~Full(chan[q], cfg.maxsize)
            /\ chan' = [chan EXCEPT ![q] = QPut(@, Msg(msg, a))]
            /\ pc' = [pc EXCEPT ![a] = "loop"]
            /\ hist' = [got EXCEPT !.act[a].sent = Append(@, msg)]
            /\ UNCHANGED results
       ELSE /\ pc' = [pc EXCEPT ![a] = "crashed"]
            /\ hist' = got
            /\ UNCHANGED <<chan, results>>
    /\ loc' = [loc EXCEPT ![a].data = NoData]
    /\ UNCHANGED <<call, cfg, handler, rpc, procs, groups, attr, value,
                   q_log, t_log>>

RecvAndLeave(a) ==
    /\ pc[a] = "recv"
    /\ LET msg == loc[a].data
           got == [hist EXCEPT !.act[a].recv = Append(@, msg)]
       IN
       IF Raises(a, "recv")
       THEN /\ pc' = [pc EXCEPT ![a] = "crashed"]
            /\ hist' = got
            /\ UNCHANGED <<chan, results>>
       ELSE IF cfg.cls[a] = "Receiver"
       THEN /\ results' = [results EXCEPT ![a] = QPut(@, msg)]
            /\ pc' = [pc EXCEPT ![a] = "leave"]
            /\ hist' = got
            /\ UNCHANGED chan
       ELSE IF sender(a)
       THEN LET q == attr[a].outbox IN
            /\ ~Full(chan[q], cfg.maxsize)
            /\ chan' = [chan EXCEPT ![q] = QPut(@, Msg(msg + 1, a))]
            /\ pc' = [pc EXCEPT ![a] = "leave"]
            /\ hist' = [got EXCEPT !.act[a].sent = Append(@, msg + 1)]
            /\ UNCHANGED results
       ELSE /\ pc' = [pc EXCEPT ![a] = "crashed"]
            /\ hist' = got
            /\ UNCHANGED <<chan, results>>
    /\ loc' = [loc EXCEPT ![a].data = NoData]
    /\ UNCHANGED <<call, cfg, handler, rpc, procs, groups, attr, value,
                   q_log, t_log>>

Recv(a) ==
    /\ pc[a] = "recv"
    /\ LET msg == loc[a].data
           got == [hist EXCEPT !.act[a].recv = Append(@, msg)]
       IN
       IF Raises(a, "recv")
       THEN /\ pc' = [pc EXCEPT ![a] = "crashed"]
            /\ hist' = got
            /\ UNCHANGED <<chan, results>>
       ELSE IF cfg.cls[a] = "Receiver"
       THEN /\ results' = [results EXCEPT ![a] = QPut(@, msg)]
            /\ pc' = [pc EXCEPT ![a] = "loop"]
            /\ hist' = got
            /\ UNCHANGED chan
       ELSE IF sender(a)
       THEN LET q == attr[a].outbox IN
            /\ ~Full(chan[q], cfg.maxsize)
            /\ chan' = [chan EXCEPT ![q] = QPut(@, Msg(msg + 1, a))]
            /\ pc' = [pc EXCEPT ![a] = "loop"]
            /\ hist' = [got EXCEPT !.act[a].sent = Append(@, msg + 1)]
            /\ UNCHANGED results
       ELSE /\ pc' = [pc EXCEPT ![a] = "crashed"]
            /\ hist' = got
            /\ UNCHANGED <<chan, results>>
    /\ loc' = [loc EXCEPT ![a].data = NoData]
    /\ UNCHANGED <<call, cfg, handler, rpc, procs, groups, attr, value,
                   q_log, t_log>>

\* run(): after loop() returned: if self.sender: self._outbox.put(poison)
LeaveLoop(a) ==
    /\ pc[a] = "leave"
    /\ IF sender(a)
       THEN LET q == attr[a].outbox IN
            /\ ~Full(chan[q], cfg.maxsize)
            /\ chan' = [chan EXCEPT ![q] = QPut(@, Poison(a))]
            /\ hist' = Logged(Bump(a, "poisoned"), a, <<DEBUG, DEBUG>>)
       ELSE /\ hist' = Logged(hist, a, <<DEBUG, DEBUG>>)
            /\ UNCHANGED chan
    /\ q_log' = LogPut(q_log, a, <<DEBUG, DEBUG>>)
    /\ pc' = [pc EXCEPT ![a] = "shutdown"]
    /\ UNCHANGED <<call, cfg, handler, rpc, procs, groups, attr, value, loc,
                   results, t_log>>

\* run(): self.shutdown() and the last log
ShutdownCaught(a) ==
    /\ pc[a] = "shutdown"
    /\ results' = IF cfg.cls[a] = "Receiver" /\ cfg.stop_msg
                  /\ ~Raises(a, "shutdown")
                  THEN [results EXCEPT ![a] = QPut(@, eol)]
                  ELSE results
    /\ hist' = Logged(Bump(a, "shutdown"), a, <<INFO>>)
    /\ q_log' = LogPut(q_log, a, <<INFO>>)
    /\ pc' = [pc EXCEPT ![a] = "done"]
    /\ UNCHANGED <<call, cfg, handler, rpc, procs, groups, attr, chan, value,
                   loc, t_log>>

Shutdown(a) ==
    /\ pc[a] = "shutdown"
    /\ IF Raises(a, "shutdown")
       THEN /\ pc' = [pc EXCEPT ![a] = "crashed"]
            /\ hist' = Bump(a, "shutdown")
            /\ UNCHANGED <<results, q_log>>
       ELSE /\ results' = IF cfg.cls[a] = "Receiver" /\ cfg.stop_msg
                          THEN [results EXCEPT ![a] = QPut(@, eol)]
                          ELSE results
            /\ hist' = Logged(Bump(a, "shutdown"), a, <<INFO>>)
            /\ q_log' = LogPut(q_log, a, <<INFO>>)
            /\ pc' = [pc EXCEPT ![a] = "done"]
    /\ UNCHANGED <<call, cfg, handler, rpc, procs, groups, attr, chan, value,
                   loc, t_log>>

\* ---- Relay.start ----------------------------------------------------------
\* the order of the two loops of _start_actors
StartOrder == Flatten([i \in 1..Len(groups) |-> groups[i][2]])

GroupNameOf(a) ==
    LET i == CHOOSE i \in 1..Len(groups) : a \in Range(groups[i][2])
    IN  groups[i][1]

Terminated(a) == pc[a] \in {"done", "crashed"}

\* start(handler=None) is called
Start ==
    /\ rpc = "connected"
    /\ rpc' = "_start_actors"
    /\ procs' = <<>>
    /\ UNCHANGED <<call, cfg, handler, groups, attr, chan, value, pc, loc,
                   results, q_log, t_log, hist>>

\* _start_actors: one iteration
StartActor ==
    /\ rpc = "_start_actors"
    /\ Len(procs) < Len(StartOrder)
    /\ LET a == StartOrder[Len(procs) + 1] IN
       /\ attr' = [attr EXCEPT ![a].group = GroupNameOf(a)]
       /\ pc' = [pc EXCEPT ![a] = "startup"]
       /\ procs' = Append(procs, a)
    /\ UNCHANGED <<call, cfg, handler, rpc, groups, chan, value, loc, results,
                   q_log, t_log, hist>>

\* _start_logthread, then "if handler:" on to handler.run() or _join_actors
StartLogthread ==
    /\ rpc = "_start_actors"
    /\ Len(procs) = Len(StartOrder)
    /\ t_log' = "running"
    /\ rpc' = IF cfg.handler THEN "handler.run" ELSE "_join_actors"
    /\ handler' = IF cfg.handler THEN [handler EXCEPT !.pc = "running"]
                  ELSE handler
    /\ UNCHANGED <<call, cfg, procs, groups, attr, chan, value, pc, loc,
                   results, q_log, hist>>

\* the Receiver built with results=handler.q
Terminal == CHOOSE a \in Created : cfg.cls[a] = "Receiver"

\* msg == Control.eol, a comparison between a payload or a Control member
\* and a Control member (values of different types are not equal)
IsEolAny(msg) == TRUE

IsEol(msg) == ToString(msg) = ToString(eol)

\* handler.run() returns: start() goes on to _join_actors; early records
\* whether every Actor was still running then
HandlerReturned(h) ==
    [h EXCEPT !.pc = "returned",
              !.early = \A a \in Created : ~Terminated(a)]

\* handler.run() in the main process: one iteration of AggregatorHandler.run,
\* or the whole of a run() that returns without waiting for anything (the
\* body of Handler.run)
HandlerRunSkipsJoin ==
    /\ rpc = "handler.run"
    /\ IF cfg.handler_cls = "AggregatorHandler"
       THEN /\ results[Terminal] # <<>>
            /\ LET msg == QGet(results[Terminal]) IN
               /\ results' = [results EXCEPT ![Terminal] = QRest(@)]
               /\ IF IsEol(msg)
                  THEN /\ handler' = HandlerReturned(handler)
                       /\ rpc' = "_join_actors"
                  ELSE /\ handler' = [handler EXCEPT
                                         !.results = @ \cup {msg}]
                       /\ UNCHANGED rpc
            /\ UNCHANGED procs
       ELSE /\ handler' = HandlerReturned(handler)
            /\ rpc' = "_join_actors"
            /\ procs' = <<>>
            /\ UNCHANGED results
    /\ UNCHANGED <<call, cfg, groups, attr, chan, value, pc, loc,
                   q_log, t_log, hist>>

HandlerRun ==
    /\ rpc = "handler.run"
    /\ IF cfg.handler_cls = "AggregatorHandler"
       THEN /\ results[Terminal] # <<>>
            /\ LET msg == QGet(results[Terminal]) IN
               /\ results' = [results EXCEPT ![Terminal] = QRest(@)]
               /\ IF IsEol(msg)
                  THEN /\ handler' = HandlerReturned(handler)
                       /\ rpc' = "_join_actors"
                  ELSE /\ handler' = [handler EXCEPT
                                         !.results = @ \cup {msg}]
                       /\ UNCHANGED rpc
       ELSE /\ handler' = HandlerReturned(handler)
            /\ rpc' = "_join_actors"
            /\ UNCHANGED results
    /\ UNCHANGED <<call, cfg, procs, groups, attr, chan, value, pc, loc,
                   q_log, t_log, hist>>

\* _join_actors: proc, procs = procs[0], procs[1:]; proc.join()
JoinActorNoWait ==
    /\ rpc = "_join_actors"
    /\ procs # <<>>
    /\ procs' = Tail(procs)
    /\ UNCHANGED <<call, cfg, handler, rpc, groups, attr, chan, value, pc,
                   loc, results, q_log, t_log, hist>>

JoinActor ==
    /\ rpc = "_join_actors"
    /\ procs # <<>>
    /\ Terminated(Head(procs))
    /\ procs' = Tail(procs)
    /\ UNCHANGED <<call, cfg, handler, rpc, groups, attr, chan, value, pc, loc,
                   results, q_log, t_log, hist>>

\* _join_logthread: self._q_log.put(Control.eol)
JoinLogthread ==
    /\ rpc = "_join_actors"
    /\ procs = <<>>
    /\ q_log' = Append(q_log, LogEol)
    /\ rpc' = "_join_logthread"
    /\ UNCHANGED <<call, cfg, handler, procs, groups, attr, chan, value, pc,
                   loc, results, t_log, hist>>

\* _log_thread: one iteration; log.log(level, msg, *args) unless eol
LogThreadSilent ==
    /\ t_log = "running"
    /\ q_log # <<>>
    /\ q_log' = Tail(q_log)
    /\ t_log' = IF Head(q_log).k = eol THEN "done" ELSE t_log
    /\ UNCHANGED <<call, cfg, handler, rpc, procs, groups, attr, chan, value,
                   pc, loc, results, hist>>

LogThread ==
    /\ t_log = "running"
    /\ q_log # <<>>
    /\ q_log' = Tail(q_log)
    /\ IF Head(q_log).k = eol
       THEN t_log' = "done" /\ UNCHANGED hist
       ELSE /\ hist' = [hist EXCEPT !.emitted = Append(@, Head(q_log))]
            /\ UNCHANGED t_log
    /\ UNCHANGED <<call, cfg, handler, rpc, procs, groups, attr, chan, value,
                   pc, loc, results>>

\* self._t_log.join() and the return of start()
Return ==
    /\ rpc = "_join_logthread"
    /\ t_log = "done"
    /\ rpc' = "returned"
    /\ UNCHANGED <<call, cfg, handler, procs, groups, attr, chan, value, pc,
                   loc, results, q_log, t_log, hist>>

ActorStep(a) ==
    \/ Startup(a)
    \/ SenderLoop(a)
    \/ LoopGet(a)
    \/ AddPoison(a)
    \/ PutEol(a)
    \/ Recv(a)
    \/ LeaveLoop(a)
    \/ Shutdown(a)

Next ==
    \/ Connect
    \/ Start
    \/ StartActor
    \/ StartLogthread
    \/ HandlerRun
    \/ JoinActor
    \/ JoinLogthread
    \/ LogThread
    \/ Return
    \/ \E a \in Created : Startup(a)
    \/ \E a \in Created : SenderLoop(a)
    \/ \E a \in Created : LoopGet(a)
    \/ \E a \in Created : AddPoison(a)
    \/ \E a \in Created : PutEol(a)
    \/ \E a \in Created : Recv(a)
    \/ \E a \in Created : LeaveLoop(a)
    \/ \E a \in Created : Shutdown(a)

Spec == Init /\ [][Next]_vars

\* ---- the call of connect alone, over every shape of the call -------------
InitCall ==
    \E sizes \in Topologies, npos \in 0..MaxGroups, bare \in BOOLEAN,
       k \in 0..MaxMaxsize :
        /\ npos <= Len(sizes)
        /\ InitOf(sizes, npos, bare, k, 0, FALSE, FALSE)

SpecConnect == InitCall /\ [][Connect]_vars

\* the same calls, the keyword groups named by the caller as in the script or
\* "group-0", "group-1", ... (connect(a, **{"group-0": b}))
InitCallNames ==
    \E sizes \in Topologies, npos \in 0..MaxGroups, bare \in BOOLEAN,
       k \in 0..MaxMaxsize, kwnames \in {KwNames, GroupNames} :
        /\ npos <= Len(sizes)
        /\ InitCfg(sizes, npos, bare, kwnames,
                   Cfg(sizes, [i \in 1..Len(sizes) |-> ClassOf(sizes, i)],
                       k, 0, FALSE, FALSE))

SpecConnectNames == InitCallNames /\ [][Connect]_vars

\* ---- fair scheduling: every process that can take a step eventually does --
Fairness ==
    /\ WF_vars(Start \/ StartActor \/ StartLogthread \/ HandlerRun
                 \/ JoinActor \/ JoinLogthread \/ Return)
    /\ WF_vars(LogThread)
    /\ \A a \in Actors : WF_vars(a \in Created /\ ActorStep(a))

FairSpec == Spec /\ Fairness

\* ---- the log relay: test_1_1 and test_handler with the records traced ------
MaxLogN == 1         \* Sender(n) of the runs with traced log records

InitLog ==
    \E n \in 0..MaxLogN, h \in BOOLEAN :
        LET sizes == <<1, 1>>
            c == Cfg(sizes, <<"Sender", "Receiver">>, 0, n, ~h, TRUE)
        IN  InitCfg(sizes, 2, FALSE, KwNames,
                    IF h THEN HandlerCfg(c) ELSE c)

SpecLog == InitLog /\ [][Next]_vars

\* ---- misuse: Actors of any class in any group ------------------------------
MaxFaultyActors == 3 \* Actors of a pipeline with a misplaced or raising Actor
MaxFaultyLoad == 24  \* size of a run of these pipelines

Classes == {"Sender", "Proxy", "Receiver"}

\* the state InitCfg builds, with the class of each Actor chosen freely
InitClasses(sizes, cls, k, n, h) ==
    LET c == [Cfg(sizes, [i \in 1..Len(sizes) |-> "Sender"], k, n, ~h, FALSE)
                 EXCEPT !.cls = cls]
    IN  InitCfg(sizes, Len(sizes), FALSE, KwNames,
                IF h THEN HandlerCfg(c) ELSE c)

\* the queues are unbounded (Relay()); a Handler is given only to pipelines
\* built as in test_handler
InitMisuse ==
    \E sizes \in Topologies, n \in 0..MaxN, h \in BOOLEAN :
        /\ Len(sizes) >= 2
        /\ NonEmpty(sizes)
        /\ Sum(sizes) <= MaxFaultyActors
        /\ Load(sizes, n) <= MaxFaultyLoad
        /\ \E cls \in [1..Sum(sizes) -> Classes] :
              /\ h => /\ sizes[Len(sizes)] = 1
                       /\ \A a \in 1..Sum(sizes) :
                             cls[a] = ClassOf(sizes, GroupOfActor(sizes, a))
              /\ InitClasses(sizes, cls, 0, n, h)

SpecMisuse == InitMisuse /\ [][Next]_vars

\* ---- crashes: one hook of one Actor raises --------------------------------
Hooks == {"startup", "loop", "recv", "shutdown"}

\* the test pipelines, each Actor in its place, with one hook that raises
InitCrash ==
    \E sizes \in Topologies, n \in 0..MaxN, h \in BOOLEAN :
        /\ Len(sizes) >= 2
        /\ NonEmpty(sizes)
        /\ Sum(sizes) <= MaxFaultyActors
        /\ Load(sizes, n) <= MaxFaultyLoad
        /\ h => sizes[Len(sizes)] = 1
        /\ \E a \in 1..Sum(sizes), hook \in Hooks :
              LET c == Cfg(sizes,
                           [i \in 1..Len(sizes) |-> ClassOf(sizes, i)],
                           0, n, ~h, FALSE)
                  f == [actor |-> a, hook |-> hook]
              IN  InitCfg(sizes, Len(sizes), FALSE, KwNames,
                          [(IF h THEN HandlerCfg(c) ELSE c)
                              EXCEPT !.fault = f])

SpecCrash == InitCrash /\ [][Next]_vars

\* ---- empty groups: connect([], ...) ----------------------------------------
\* pipelines in which at least one group is an empty list, the test Actors in
\* their places; a Handler is given to pipelines that end in one Receiver,
\* built with results=handler.q, send_on_startup and send_on_shutdown
InitEmpty ==
    \E sizes \in Topologies, k \in 0..MaxMaxsize, n \in 0..MaxN,
       h \in BOOLEAN :
        /\ Len(sizes) >= 2
        /\ ~NonEmpty(sizes)
        /\ Load(sizes, n) <= MaxLoad
        /\ h => sizes[Len(sizes)] = 1
        /\ LET c == Cfg(sizes, [i \in 1..Len(sizes) |-> ClassOf(sizes, i)],
                        k, n, TRUE, FALSE)
           IN  InitCfg(sizes, Len(sizes), FALSE, KwNames,
                       [c EXCEPT !.handler = h])

SpecEmpty == InitEmpty /\ [][Next]_vars

\* ---- a Handler that returns early ------------------------------------------
\* the pipelines of InitHandler, started with a Handler whose run() returns
\* at once, or with the AggregatorHandler
InitEarly ==
    \E sizes \in Topologies, n \in 0..MaxN,
       hc \in {"Handler", "AggregatorHandler"} :
        /\ Len(sizes) >= 2
        /\ NonEmpty(sizes)
        /\ sizes[1] = 1
        /\ sizes[Len(sizes)] = 1
        /\ Load(sizes, n) <= MaxLoad
        /\ LET c == HandlerCfg(Cfg(sizes,
                                   [i \in 1..Len(sizes) |->
                                      ClassOf(sizes, i)],
                                   0, n, FALSE, FALSE))
           IN  InitCfg(sizes, Len(sizes), FALSE, KwNames,
                       [c EXCEPT !.handler_cls = hc])

SpecEarly == InitEarly /\ [][Next]_vars

\* the runs with a Handler, fairly scheduled
FairHandler == InitHandler /\ [][Next]_vars /\ Fairness

\* ---- the pipeline as wired ------------------------------------------------
Wired == rpc \notin {"new", "AssertionError"}

Instances == [i \in 1..Len(groups) |-> groups[i][2]]

Queues == 1..Len(chan)

\* the Actors putting on / getting from the queue q
Up(q) == {a \in Created : attr[a].outbox = q}
Down(q) == {a \in Created : attr[a].inbox = q}

NonEmptyGroups == \A i \in 1..Len(groups) : Len(groups[i][2]) > 0

\* everything the Actors 1..a putting on (side "outbox") or getting from
\* (side "inbox") the queue q have sent / got in recv, as one sequence
RECURSIVE Gather(_, _, _, _)
Gather(side, q, field, a) ==
    IF a = 0 THEN <<>>
    ELSE Gather(side, q, field, a - 1)
         \o (IF attr[a][side] = q THEN hist.act[a][field] ELSE <<>>)

SentOn(q) == Gather("outbox", q, "sent", Len(pc))
RecvOn(q) == Gather("inbox", q, "recv", Len(pc))

\* the payloads on the queue q and in the hands of its consumers
RECURSIVE Payloads(_)
Payloads(s) ==
    IF s = <<>> THEN <<>>
    ELSE (IF Head(s).k = "msg" THEN <<Head(s).v>> ELSE <<>>)
         \o Payloads(Tail(s))

RECURSIVE Held(_, _)
Held(q, a) ==
    IF a = 0 THEN <<>>
    ELSE Held(q, a - 1)
         \o (IF attr[a].inbox = q /\ pc[a] = "recv"
             THEN <<loc[a].data>> ELSE <<>>)

InFlight(q) == Payloads(chan[q]) \o Held(q, Len(pc))

PoisonsOn(q) == Cardinality({i \in 1..Len(chan[q]) : chan[q][i].k = poison})

\* ---- C1 -------------------------------------------------------------------
\* C1: a pipeline wired from at least two non-empty groups terminates under
\* fair scheduling: every Actor leaves its loop and ends, and Relay.start()
\* returns.
C1_StartReturns ==
    (Wired /\ Len(groups) >= 2 /\ NonEmptyGroups)
        ~> (rpc = "returned" /\ \A a \in Created : pc[a] = "done")

\* ---- C2 -------------------------------------------------------------------
\* C2: on every boundary each payload handed to send() is handed to recv() of
\* exactly one downstream Actor: what was sent is, as a multiset, what was
\* received plus what is still on the queue or about to be handed to recv(),
\* and when start() has returned the received multiset is the sent one.
C2_ExactlyOnce ==
    \A q \in Queues :
        Down(q) # {} =>
            /\ SameBag(SentOn(q), RecvOn(q) \o InFlight(q))
            /\ rpc = "returned" => SameBag(SentOn(q), RecvOn(q))

\* two producers have sent 0, 1 each to two consumers and start() has returned
C2_Witness ==
    /\ rpc = "returned"
    /\ \E q \in Queues :
          /\ Cardinality(Up(q)) = 2
          /\ Cardinality(Down(q)) = 2
          /\ SameBag(RecvOn(q), <<0, 0, 1, 1>>)

\* ---- C3 -------------------------------------------------------------------
\* C3: on a boundary with S upstream and R downstream Actors never more than
\* R eol are put on the queue, and once all S poison pills are consumed (and
\* counted) exactly R eol have been put.
AllPoisonCounted(q) ==
    /\ \A a \in Up(q) : hist.act[a].poisoned = 1
    /\ PoisonsOn(q) = 0
    /\ \A a \in Down(q) : pc[a] \notin {"poison", "puteol"}

C3_EolPerPeer ==
    \A q \in Queues :
        (Up(q) # {} /\ Down(q) # {}) =>
            /\ hist.eols[q] <= Cardinality(Down(q))
            /\ AllPoisonCounted(q) => hist.eols[q] = Cardinality(Down(q))

\* ---- C4 -------------------------------------------------------------------
\* C4: after connect the Actors of one downstream group share one counter,
\* which starts at zero.
C4_OneCounterPerBoundary ==
    Wired =>
        \A a, b \in Created :
            (receiver(a) /\ attr[a].inbox = attr[b].inbox) =>
                /\ attr[a].received_poison = attr[b].received_poison
                /\ rpc = "connected" => value[attr[a].received_poison] = 0

\* ---- C5 -------------------------------------------------------------------
\* C5: on a boundary with one producer and one consumer, recv() gets the
\* payloads in the order of the send() calls.
C5_FifoOneToOne ==
    \A q \in Queues :
        \A s \in Up(q), r \in Down(q) :
            (Up(q) = {s} /\ Down(q) = {r}) =>
                IsPrefix(hist.act[r].recv, hist.act[s].sent)

\* a single consumer has got two different payloads of a single producer
C5_Witness ==
    \E q \in Queues :
        \E s \in Up(q), r \in Down(q) :
            /\ Up(q) = {s}
            /\ Down(q) = {r}
            /\ hist.act[r].recv = <<0, 1>>

\* ---- C6 -------------------------------------------------------------------
OneToOne == Wired /\ Len(groups) = 2 /\ \A i \in 1..2 : Len(groups[i][2]) = 1

\* C6: in a 1-1 pipeline of N payloads the receiver gets N payloads in recv(),
\* only then the one poison pill, counts it to 1, puts one eol on its own
\* inbox, gets that eol and leaves the loop.
C6_OneToOneEnd ==
    OneToOne =>
        LET r == groups[2][2][1]
            h == hist.act[r]
            c == attr[r].received_poison
        IN  /\ Len(h.recv) <= cfg.n
            /\ h.gotpoison <= 1
            /\ h.goteol <= 1
            /\ hist.eols[1] <= 1
            /\ h.gotpoison = 1 =>
                   Len(h.recv) + (IF pc[r] = "recv" THEN 1 ELSE 0) = cfg.n
            /\ value[c] = (IF h.gotpoison = 1 /\ pc[r] # "poison" THEN 1 ELSE 0)
            /\ hist.eols[1] = (IF value[c] = 1 /\ pc[r] # "puteol" THEN 1 ELSE 0)
            /\ h.goteol = 1 => hist.eols[1] = 1
            /\ pc[r] \in {"leave", "shutdown", "done"} =>
                   /\ Len(h.recv) = cfg.n
                   /\ h.gotpoison = 1
                   /\ h.goteol = 1
                   /\ chan[1] = <<>>

\* the receiver of a 1-1 pipeline has left its loop after two payloads
C6_Witness ==
    /\ OneToOne
    /\ cfg.n = 2
    /\ pc[groups[2][2][1]] = "done"
    /\ hist.act[groups[2][2][1]].goteol = 1

\* ---- C7 -------------------------------------------------------------------
\* C7: run() calls startup(), loop(), puts one poison pill iff the Actor is a
\* sender, and calls shutdown(), in this order and once each; recv() is only
\* called between startup() and shutdown().
C7_Lifecycle ==
    \A a \in Created :
        LET h == hist.act[a] IN
        /\ h.startup <= 1 /\ h.shutdown <= 1 /\ h.poisoned <= 1
        /\ h.startup = 0 =>
               h.recv = <<>> /\ h.sent = <<>> /\ h.poisoned = 0 /\ h.shutdown = 0
        /\ pc[a] \in {"loop", "poison", "puteol", "recv", "leave"} =>
               h.startup = 1 /\ h.poisoned = 0 /\ h.shutdown = 0
        /\ h.poisoned = 1 => sender(a)
        /\ pc[a] = "shutdown" =>
               /\ h.startup = 1 /\ h.shutdown = 0
               /\ h.poisoned = (IF sender(a) THEN 1 ELSE 0)
        /\ (pc[a] = "done" \/ h.shutdown = 1) =>
               /\ pc[a] = "done"
               /\ h.startup = 1 /\ h.shutdown = 1
               /\ h.poisoned = (IF sender(a) THEN 1 ELSE 0)
        /\ (pc[a] = "done" /\ cfg.cls[a] = "Receiver" /\ cfg.start_msg
              /\ cfg.stop_msg) =>
               results[a] = <<HELO>> \o h.recv \o <<eol>>

\* a Sender and a Receiver have run to their end around one payload
C7_Witness ==
    \E s, r \in Created :
        /\ pc[s] = "done" /\ sender(s) /\ hist.act[s].poisoned = 1
        /\ pc[r] = "done" /\ ~sender(r) /\ hist.act[r].poisoned = 0
        /\ results[r] = <<HELO, 0, eol>>

\* ---- C8 -------------------------------------------------------------------
Unwired ==
    /\ groups = <<>>
    /\ chan = <<>>
    /\ value = <<>>
    /\ \A a \in Created : attr[a] = NoAttr

C8_Step ==
    (rpc = "new" /\ Len(call.args) + Len(call.kwargs) < 2) =>
        (rpc' = "AssertionError" /\ Unwired')

\* C8: connect with fewer than two groups raises AssertionError and wires
\* nothing: no Actor has a queue or a counter, the Relay has no groups.
C8_TooFewGroups ==
    /\ [](rpc = "AssertionError" => Unwired)
    /\ [][C8_Step]_vars

\* connect was called with a single group of Actors and has failed
C8_Witness == rpc = "AssertionError" /\ Created # {}

\* ---- C9 -------------------------------------------------------------------
\* C9: after connect the i-th queue is the outbox of every Actor of group i
\* and the inbox of every Actor of group i + 1; the first group has no inbox,
\* the last group no outbox, and there is one queue per adjacent pair.
C9_Wiring ==
    Wired =>
        /\ Len(groups) >= 2
        /\ Len(chan) = Len(groups) - 1
        /\ \A i \in 1..Len(groups) :
             \A a \in Range(groups[i][2]) :
                /\ attr[a].outbox = (IF i < Len(groups) THEN i ELSE None)
                /\ attr[a].inbox = (IF i > 1 THEN i - 1 ELSE None)
                /\ i = 1 => ~receiver(a) /\ sender(a)
                /\ i = Len(groups) => receiver(a) /\ ~sender(a)

\* three non-empty groups are wired
C9_Witness ==
    /\ rpc = "connected"
    /\ Len(groups) = 3
    /\ NonEmptyGroups

\* ---- C10 ------------------------------------------------------------------
\* C10: with maxsize = k >= 1 no queue between groups ever holds more than k
\* items, payloads and Control members together; a put on a queue that holds
\* k items would make it k + 1, so none completes before a get.
C10_Backpressure ==
    cfg.maxsize >= 1 => \A q \in Queues : Len(chan[q]) <= cfg.maxsize

\* a Sender is about to send while its bounded outbox is full
C10_Witness ==
    \E a \in Created :
        /\ cfg.maxsize >= 1
        /\ cfg.cls[a] = "Sender"
        /\ pc[a] = "loop"
        /\ loc[a].x < cfg.n
        /\ sender(a)
        /\ Len(chan[attr[a].outbox]) = cfg.maxsize

\* ---- C11 ------------------------------------------------------------------
IsSuffix(s, t) ==
    Len(s) <= Len(t) /\ s = SubSeq(t, Len(t) - Len(s) + 1, Len(t))

Started == {a \in Created : pc[a] # "created"}

\* the eol of _join_logthread is on the log queue or was taken from it
LogEolPut == t_log = "done" \/ \E i \in 1..Len(q_log) : q_log[i].k = eol

\* C11: start(handler) starts every Actor in group order, then the log
\* thread, then runs handler.run() if a handler is given, then joins the
\* Actors in start order, then puts eol on the log queue and joins the log
\* thread: the log thread is not started before the last Actor, no Actor is
\* joined before handler.run() has returned, the log eol is put only when
\* every Actor has terminated, and start() returns only when every Actor has
\* terminated and handler.run() has returned.
C11_StartSequence ==
    Wired =>
        /\ rpc = "connected" =>
               Started = {} /\ t_log = "none" /\ handler.pc = "none"
        /\ rpc = "_start_actors" =>
               /\ IsPrefix(procs, StartOrder)
               /\ Started = Range(procs)
               /\ t_log = "none"
               /\ handler.pc = "none"
        /\ t_log # "none" => Started = Range(StartOrder)
        /\ handler.pc # "none" => cfg.handler /\ t_log # "none"
        /\ rpc = "handler.run" =>
               /\ handler.pc = "running"
               /\ procs = StartOrder
               /\ t_log = "running"
               /\ ~LogEolPut
        /\ rpc = "_join_actors" =>
               /\ IsSuffix(procs, StartOrder)
               /\ \A a \in Range(StartOrder) \ Range(procs) : Terminated(a)
               /\ handler.pc = (IF cfg.handler THEN "returned" ELSE "none")
               /\ t_log = "running"
               /\ ~LogEolPut
        /\ LogEolPut =>
               /\ procs = <<>>
               /\ \A a \in Range(StartOrder) : Terminated(a)
               /\ rpc \in {"_join_logthread", "returned"}
        /\ rpc = "returned" =>
               /\ t_log = "done"
               /\ \A a \in Range(StartOrder) : Terminated(a)
               /\ cfg.handler => handler.pc = "returned"

\* start(handler) has returned from a pipeline of three groups whose handler
\* has seen two payloads
C11_Witness ==
    /\ rpc = "returned"
    /\ cfg.handler
    /\ Len(groups) = 3
    /\ handler.pc = "returned"
    /\ Cardinality(handler.results) = 2

\* ---- C12 ------------------------------------------------------------------
\* the Sender of a pipeline with one producer
Producer == groups[1][2][1]

\* what the terminal Actor gets of the payloads 0..n-1 of the producer: every
\* group of Proxies in between adds 1
Delivered(xs) == {x + Len(groups) - 2 : x \in xs}

C12_HandOff ==
    (Wired /\ cfg.handler) =>
        /\ handler.results \subseteq Range(hist.act[Terminal].recv)
        /\ handler.pc = "returned" =>
               /\ handler.results = Range(hist.act[Terminal].recv)
               /\ results[Terminal] = <<>>
               /\ pc[Terminal] = "done"
        /\ rpc = "returned" =>
               /\ Len(hist.act[Producer].sent) = cfg.n
               /\ handler.results = Delivered(Range(hist.act[Producer].sent))

\* C12: with a Handler whose queue gets every payload in recv() and eol in
\* shutdown() of the single terminal Actor, handler.run() returns only after
\* it has taken every payload the terminal Actor received; when
\* start(handler) has returned the handler's set is the set of the payloads
\* the producer sent (as they arrive at the terminal Actor), and
\* start(handler) eventually returns.
C12_Handler ==
    /\ []C12_HandOff
    /\ (rpc = "connected" /\ cfg.handler) ~> (rpc = "returned")

\* test_handler: start(handler) has returned and handler.results == {0, 1}
C12_Witness ==
    /\ rpc = "returned"
    /\ cfg.handler
    /\ Len(groups) = 2
    /\ hist.act[Producer].sent = <<0, 1>>
    /\ handler.results = {0, 1}

\* ---- C13 ------------------------------------------------------------------
\* test_1_n_1: one Sender, one group of Proxies, one Receiver
Chain ==
    /\ Wired
    /\ Len(groups) = 3
    /\ Len(groups[1][2]) = 1
    /\ Len(groups[2][2]) >= 1
    /\ Len(groups[3][2]) = 1

\* list(range(n)) and [x + 1 for x in range(n)]
UpTo(n) == [i \in 1..n |-> i - 1]
Plus1(xs) == [i \in 1..Len(xs) |-> xs[i] + 1]

\* C13: in a chain of one Sender, n Proxies and one Receiver every payload x
\* of the Sender is got by exactly one Proxy and arrives as x + 1 exactly
\* once; the Receiver leaves its loop only after it has received all of them,
\* and its results are then exactly the payloads 1..N.
C13_Chain ==
    Chain =>
        LET p == groups[1][2][1]
            r == groups[3][2][1]
            sent == hist.act[p].sent
        IN  /\ IsPrefix(sent, UpTo(cfg.n))
            /\ SubBag(RecvOn(1), sent)
            /\ SameBag(SentOn(2), Plus1(RecvOn(1)))
            /\ SubBag(hist.act[r].recv, SentOn(2))
            /\ pc[r] \in {"leave", "shutdown", "done"} =>
                   /\ sent = UpTo(cfg.n)
                   /\ SameBag(RecvOn(1), sent)
                   /\ SameBag(hist.act[r].recv, Plus1(sent))
            /\ (rpc = "returned" /\ ~cfg.handler) =>
                   /\ Len(results[r]) = cfg.n + 2
                   /\ SameBag(SubSeq(results[r], 2, cfg.n + 1), Plus1(sent))
            /\ (rpc = "returned" /\ cfg.handler) =>
                   handler.results = Range(Plus1(sent))

\* two Proxies have each passed on one of the payloads 0 and 1, and the
\* Receiver has left its loop with 1 and 2
C13_Witness ==
    /\ Chain
    /\ rpc = "returned"
    /\ Len(groups[2][2]) = 2
    /\ \A a \in Down(1) : Len(hist.act[a].recv) = 1
    /\ SameBag(hist.act[groups[3][2][1]].recv, <<1, 2>>)

\* ---- C14 ------------------------------------------------------------------
\* the levels of the records of the Actor a in the sequence s of records
RECURSIVE RecordsOf(_, _)
RecordsOf(s, a) ==
    IF s = <<>> THEN <<>>
    ELSE (IF Head(s).k = "record" /\ Head(s).actor = a
          THEN <<Head(s).level>> ELSE <<>>) \o RecordsOf(Tail(s), a)

\* the log() calls of one whole run() that got g poison pills
RunLog(g) ==
    <<INFO, DEBUG>> \o [i \in 1..g |-> DEBUG] \o <<DEBUG, DEBUG, INFO>>

\* C14: every log() call of an Actor puts one record on the log queue and
\* emits nothing; the log thread emits each record it takes once, in the
\* order of the queue, and stops only on eol; the eol is put when every Actor
\* is joined, so when start() has returned every record of every Actor has
\* been emitted.
C14_LogRelay ==
    /\ \A a \in Created :
          RecordsOf(hist.emitted \o q_log, a) = hist.act[a].logged
    /\ \A i \in 1..Len(hist.emitted) : hist.emitted[i].k = "record"
    /\ \A i \in 1..Len(q_log) :
          q_log[i].k = eol =>
              /\ i = Len(q_log)
              /\ \A a \in Created : Terminated(a)
    /\ t_log = "done" =>
          q_log = <<>> /\ rpc \in {"_join_logthread", "returned"}
    /\ rpc = "returned" =>
          /\ q_log = <<>>
          /\ \A a \in Created :
                /\ RecordsOf(hist.emitted, a) = hist.act[a].logged
                /\ pc[a] = "done" =>
                       hist.act[a].logged = RunLog(hist.act[a].gotpoison)
          /\ Len(hist.emitted) =
                 Sum([a \in 1..Cardinality(Created) |->
                        Len(hist.act[a].logged)])

\* start() has returned with the five records of the Sender and the six of
\* the Receiver emitted
C14_Witness ==
    /\ rpc = "returned"
    /\ cfg.log_records
    /\ Len(hist.emitted) = 11
    /\ RecordsOf(hist.emitted, 2) = RunLog(1)

\* ---- C15 ------------------------------------------------------------------
\* C15: send() on an Actor without an outbox fails on its assert with nothing
\* put on any queue, and the default loop() on an Actor without an inbox
\* fails on its assert before anything is taken from a queue.
C15_Misuse ==
    \A a \in Created :
        LET h == hist.act[a] IN
        /\ ~sender(a) =>
               /\ h.sent = <<>> /\ h.poisoned = 0
               /\ \A q \in Queues : \A i \in 1..Len(chan[q]) :
                      chan[q][i].src = a =>
                          chan[q][i].k = eol /\ q = attr[a].inbox
               /\ (cfg.cls[a] = "Sender" /\ cfg.n > 0) =>
                      pc[a] \in {"created", "startup", "loop", "crashed"}
               /\ cfg.cls[a] = "Proxy" =>
                      /\ Len(h.recv) <= 1
                      /\ Len(h.recv) = 1 => pc[a] = "crashed"
        /\ (~receiver(a) /\ cfg.cls[a] # "Sender") =>
               /\ pc[a] \in {"created", "startup", "crashed"}
               /\ h.recv = <<>> /\ h.gotpoison = 0 /\ h.goteol = 0

\* a Proxy of the last group has failed in send() on its first payload and a
\* Proxy of the first group has failed at the start of its loop
C15_Witness ==
    \E a, b \in Created :
        /\ cfg.cls[a] = "Proxy" /\ receiver(a) /\ ~sender(a)
        /\ pc[a] = "crashed" /\ hist.act[a].recv = <<0>>
        /\ cfg.cls[b] = "Proxy" /\ sender(b) /\ ~receiver(b)
        /\ pc[b] = "crashed"

\* ---- C16 ------------------------------------------------------------------
\* the Actor whose hook has raised
Crashed(a) == cfg.fault.actor = a /\ pc[a] = "crashed"

\* C16: an exception leaving startup(), loop() or shutdown() ends the Actor
\* with no poison pill put on its outbox, for each of the three hooks.
C16_NoPoisonOnCrash ==
    \A a \in Created : Crashed(a) => hist.act[a].poisoned = 0

\* C16 as the code has it: an exception leaving startup() or loop() (recv()
\* included) ends the Actor with no poison pill put and shutdown() not
\* called; an exception leaving shutdown() ends the Actor as well, but after
\* the poison pill that run() puts between loop() and shutdown(), which a
\* sender has then put.  No exception is caught: the Actor never gets past
\* the hook that raised.
C16_PoisonBeforeShutdown ==
    \A a \in Created :
        LET h == hist.act[a]
            hook == cfg.fault.hook
        IN  cfg.fault.actor = a =>
            /\ hook \in {"startup", "loop"} =>
                   /\ pc[a] \in {"created", "startup", "crashed"}
                   /\ h.sent = <<>> /\ h.recv = <<>>
            /\ hook = "recv" =>
                   /\ Len(h.recv) <= 1
                   /\ Len(h.recv) = 1 => pc[a] = "crashed"
            /\ hook = "shutdown" => pc[a] # "done"
            /\ Crashed(a) =>
                   IF hook = "shutdown"
                   THEN h.poisoned = (IF sender(a) THEN 1 ELSE 0)
                   ELSE h.poisoned = 0 /\ h.shutdown = 0

\* a Sender has ended in shutdown() with its poison pill put, and the
\* Receiver has left its loop on it
C16_Witness ==
    \E a, b \in Created :
        /\ Crashed(a)
        /\ cfg.fault.hook = "shutdown"
        /\ sender(a)
        /\ hist.act[a].poisoned = 1
        /\ attr[b].inbox = attr[a].outbox
        /\ pc[b] = "done"

\* ---- C17 ------------------------------------------------------------------
\* C17: once an upstream Actor has ended by an exception in startup(), loop()
\* or recv(), its boundary has got fewer poison pills than expected, no
\* downstream counter reaches expected_poison, no eol is put on the queue, no
\* downstream Actor leaves its loop and start() does not return.
C17_CrashHazard ==
    \A a \in Created :
        (Crashed(a) /\ cfg.fault.hook # "shutdown" /\ sender(a)) =>
            LET q == attr[a].outbox IN
            /\ Sum([u \in 1..Cardinality(Created) |->
                       IF u \in Up(q) THEN hist.act[u].poisoned ELSE 0])
                   < Cardinality(Up(q))
            /\ \A b \in Down(q) :
                   /\ hist.act[b].gotpoison < attr[b].expected_poison
                   /\ value[attr[b].received_poison] < attr[b].expected_poison
                   /\ hist.act[b].goteol = 0
                   /\ pc[b] \notin {"leave", "shutdown", "done", "crashed"}
            /\ hist.eols[q] = 0
            /\ \A i \in 1..Len(chan[q]) : chan[q][i].k # eol
            /\ rpc \notin {"_join_logthread", "returned"}

\* one of two Senders has ended in its loop, the other one is done, and the
\* Receiver waits on the empty queue with one of two poison pills counted
C17_Witness ==
    \E a, u, b \in Created :
        /\ Crashed(a) /\ cfg.fault.hook = "loop"
        /\ u # a /\ attr[u].outbox = attr[a].outbox /\ pc[u] = "done"
        /\ attr[b].inbox = attr[a].outbox
        /\ pc[b] = "loop"
        /\ chan[attr[b].inbox] = <<>>
        /\ value[attr[b].received_poison] = 1
        /\ attr[b].expected_poison = 2
        /\ rpc = "_join_actors"

\* ---- C18 ------------------------------------------------------------------
C18_Step ==
    (rpc = "new" /\ rpc' = "connected") =>
        LET args == call.args
            kwargs == call.kwargs
        IN  /\ Len(groups') = Len(args) + Len(kwargs)
            /\ Len(groups') >= 2
            /\ \A i \in 1..Len(args) :
                   groups'[i] = <<AutoName(i - 1), ensure_list(args[i])>>
            /\ \A j \in 1..Len(kwargs) :
                   groups'[Len(args) + j] =
                       <<kwargs[j][1], ensure_list(kwargs[j][2])>>
            /\ Len(chan') = Len(groups') - 1
            /\ \A i \in 1..(Len(groups') - 1) :
                   /\ \A a \in Range(groups'[i][2]) : attr'[a].outbox = i
                   /\ \A b \in Range(groups'[i + 1][2]) : attr'[b].inbox = i

\* C18: a successful connect(*args, **kwargs) gives len(args) + len(kwargs)
\* groups: the positional ones first, in order, under the names "group-i",
\* then the keyword ones in order under their names; each group is wired to
\* the next one.
C18_GroupPerArgument == [][C18_Step]_vars

\* ---- C19 ------------------------------------------------------------------
\* the Actor a is out of its loop
LeftLoop(a) == pc[a] \in {"leave", "shutdown", "done"}

\* C19: an Actor that runs the default loop has left it only when every
\* Actor of the group before has left its own loop and put its poison pill;
\* no downstream Actor ends while an upstream Actor is still in its loop.
C19_Downstream ==
    \A q \in Queues :
        \A b \in Down(q) :
            (cfg.cls[b] # "Sender"
                /\ (LeftLoop(b) \/ hist.act[b].goteol > 0)) =>
                \A u \in Up(q) :
                    /\ hist.act[u].poisoned = 1
                    /\ pc[u] \in {"shutdown", "done"}

\* of two Receivers behind two Senders one is done while the other one is
\* still in its loop
C19_Witness ==
    \E q \in Queues :
        \E b, c \in Down(q) :
            /\ Cardinality(Up(q)) = 2
            /\ pc[b] = "done"
            /\ pc[c] = "loop"
            /\ chan[q] # <<>>

\* ---- C20 ------------------------------------------------------------------
\* an eol is on the queue q or was taken from it
EolSeen(q) ==
    \/ \E i \in 1..Len(chan[q]) : chan[q][i].k = eol
    \/ \E b \in Created : attr[b].inbox = q /\ hist.act[b].goteol > 0

\* C20: once an eol is on a queue between two groups or was taken from it,
\* the queue holds no payload and no poison pill, and every upstream Actor
\* has made its last put: eol is read only after all payloads of the
\* boundary are dequeued.
C20_EolLast ==
    \A q \in Queues :
        (EolSeen(q) \/ hist.eols[q] > 0) =>
            /\ \A i \in 1..Len(chan[q]) : chan[q][i].k = eol
            /\ \A u \in Up(q) :
                   /\ hist.act[u].poisoned = 1
                   /\ pc[u] \in {"shutdown", "done"}
            /\ SameBag(SentOn(q), RecvOn(q) \o InFlight(q))
            /\ InFlight(q) = Held(q, Len(pc))

\* behind two payloads one of two eol is still on the queue, the other one
\* was taken
C20_Witness ==
    \E q \in Queues :
        /\ Len(SentOn(q)) = 2
        /\ Cardinality(Down(q)) = 2
        /\ Len(chan[q]) = 1
        /\ chan[q][1].k = eol
        /\ \E b \in Down(q) : hist.act[b].goteol = 1

\* ---- C21 ------------------------------------------------------------------
\* the Actor a takes a step of run()
Moved(a) == pc'[a] # pc[a] \/ loc'[a] # loc[a]

C21_Step ==
    \A a \in Created :
        (cfg.cls[a] # "Sender" /\ Moved(a)) =>
            LET q == attr[a].inbox
                c == attr[a].received_poison
                h == hist.act[a]
                h2 == hist'.act[a]
            IN  /\ pc[a] = "loop" =>
                    /\ chan[q] # <<>>
                    /\ chan'[q] = Tail(chan[q])
                    /\ h2.recv = h.recv
                    /\ value' = value
                    /\ CASE Head(chan[q]).k = poison ->
                                pc'[a] = "poison" /\ h2.goteol = h.goteol
                         [] Head(chan[q]).k = eol ->
                                pc'[a] = "leave" /\ h2.goteol = h.goteol + 1
                         [] OTHER ->
                                /\ pc'[a] = "recv"
                                /\ loc'[a].data = Head(chan[q]).v
                                /\ h2.goteol = h.goteol
                /\ pc[a] = "poison" =>
                    /\ value'[c] = value[c] + 1
                    /\ chan' = chan
                    /\ IF value'[c] = attr[a].expected_poison
                       THEN /\ pc'[a] = "puteol"
                            /\ loc'[a].todo = attr[a].peer_count
                       ELSE pc'[a] = "loop"
                /\ pc[a] = "puteol" =>
                    /\ chan'[q] = Append(chan[q], Eol(a))
                    /\ value' = value
                    /\ loc'[a].todo = loc[a].todo - 1
                    /\ pc'[a] = (IF loc'[a].todo = 0 THEN "loop" ELSE "puteol")
                /\ pc[a] = "recv" =>
                    /\ loc[a].data \in Nat
                    /\ h2.recv = Append(h.recv, loc[a].data)
                    /\ pc'[a] = "loop"
                /\ pc'[a] = "leave" =>
                    pc[a] = "loop" /\ Head(chan[q]).k = eol
                /\ h2.recv # h.recv => pc[a] = "recv"

\* C21: every step of a default loop is the dispatch on the dequeued value:
\* the get takes the head of the inbox; poison goes to _add_poison, which
\* adds one to the counter and puts peer_count eol on the same inbox iff the
\* new value is expected_poison, and then gets again; eol ends the loop;
\* anything else is handed to recv() once, and the loop gets again.  The loop
\* is left only on eol and recv() never gets a Control member.
C21_LoopDispatch == [][C21_Step]_vars

\* an Actor with one peer has got a payload in recv(), counted the last
\* poison pill, put two eol on its inbox, taken one of them and ended
C21_Witness ==
    \E a \in Created :
        /\ cfg.cls[a] # "Sender"
        /\ attr[a].peer_count = 2
        /\ hist.act[a].recv # <<>>
        /\ value[attr[a].received_poison] = attr[a].expected_poison
        /\ hist.eols[attr[a].inbox] = 2
        /\ hist.act[a].goteol = 1
        /\ pc[a] = "done"

\* ---- C22 ------------------------------------------------------------------
\* the increments made so far by the Actors getting from the queue q: the
\* poison pills they have dequeued and passed through _add_poison
Counted(q) ==
    Sum([b \in 1..Len(pc) |->
           IF attr[b].inbox = q
           THEN hist.act[b].gotpoison - (IF pc[b] = "poison" THEN 1 ELSE 0)
           ELSE 0])

\* C22: the counter of a boundary is incremented, compared and acted upon
\* under its lock: whatever the interleaving of the downstream Actors, the
\* counter each of them reads holds every increment made on the boundary so
\* far, at most one Actor is inside the critical section, and at most one
\* Actor finds the counter at expected_poison and puts the eol.
C22_AtomicCount ==
    \A q \in Queues :
        Down(q) # {} =>
            /\ \A b \in Down(q) :
                   value[attr[b].received_poison] = Counted(q)
            /\ Cardinality({b \in Down(q) : pc[b] = "puteol"}) <= 1
            /\ hist.eols[q] <= Cardinality(Down(q))

\* ---- C23 ------------------------------------------------------------------
\* what the Actor u has put on its outbox so far, in order: the payloads of
\* its send() calls and then the poison pill of run()
Puts(u) ==
    [i \in 1..Len(hist.act[u].sent) |-> Msg(hist.act[u].sent[i], u)]
        \o (IF hist.act[u].poisoned = 1 THEN <<Poison(u)>> ELSE <<>>)

\* the items of the Actor u in the sequence s of items, in order
RECURSIVE ItemsOf(_, _)
ItemsOf(s, u) ==
    IF s = <<>> THEN <<>>
    ELSE (IF Head(s).src = u THEN <<Head(s)>> ELSE <<>>)
         \o ItemsOf(Tail(s), u)

\* C23: on a queue shared by several producers, what is on the queue of one
\* producer is in every state the tail end of what it has put, in the order
\* of its puts (its payloads in the order of its send() calls, then its
\* poison pill): the items of one producer leave the queue in the order of
\* its puts and its poison pill after all its payloads, whatever the
\* interleaving with the other producers.
C23_ProducerOrder ==
    \A q \in Queues :
        \A u \in Up(q) :
            IsSuffix(ItemsOf(chan[q], u), Puts(u))

\* test_n_1: the Receiver behind two Senders has got 0, 0, 1, 1, the payloads
\* of the two producers interleaved, and then both poison pills
C23_Witness ==
    \E q \in Queues :
        \E r \in Down(q) :
            /\ Cardinality(Up(q)) = 2
            /\ Down(q) = {r}
            /\ \A u \in Up(q) : hist.act[u].sent = <<0, 1>>
            /\ hist.act[r].recv = <<0, 0, 1, 1>>
            /\ hist.act[r].gotpoison = 2

\* ---- C24 ------------------------------------------------------------------
\* C24: connect gives every Actor of a group but the first _peer_count, the
\* size of its own group, _expected_poison, the size of the group before,
\* and a counter; the Actors of the first group get none of the three.
C24_Counts ==
    Wired =>
        \A i \in 1..Len(groups) :
            \A a \in Range(groups[i][2]) :
                IF i = 1
                THEN /\ attr[a].peer_count = None
                     /\ attr[a].expected_poison = None
                     /\ attr[a].received_poison = None
                ELSE /\ attr[a].peer_count = Len(groups[i][2])
                     /\ attr[a].expected_poison = Len(groups[i - 1][2])
                     /\ attr[a].received_poison \in DOMAIN value

\* one Actor, then two Actors, then one Actor are connected
C24_Witness ==
    /\ rpc = "connected"
    /\ Len(groups) = 3
    /\ Len(groups[1][2]) = 1
    /\ Len(groups[2][2]) = 2
    /\ Len(groups[3][2]) = 1
    /\ \A a \in Range(groups[3][2]) :
          attr[a].peer_count = 1 /\ attr[a].expected_poison = 2

\* ---- C25 ------------------------------------------------------------------
\* the poison pills put on the queue q so far
PoisonPut(q) ==
    Sum([u \in 1..Len(pc) |->
           IF attr[u].outbox = q THEN hist.act[u].poisoned ELSE 0])

\* C25: in a run without crashes no counter ever exceeds the expected_poison
\* of its Actor, and on every queue at most as many poison pills are ever put
\* as the upstream group has Actors, one per Actor at most.
C25_CounterBound ==
    /\ \A b \in Created :
          receiver(b) =>
              value[attr[b].received_poison] <= attr[b].expected_poison
    /\ \A q \in Queues :
          /\ PoisonPut(q) <= Cardinality(Up(q))
          /\ \A u \in Up(q) : hist.act[u].poisoned <= 1
          /\ PoisonsOn(q) <= PoisonPut(q)

\* behind two Senders that are done a counter stands at 2 of 2 and its Actor
\* is done
C25_Witness ==
    \E q \in Queues :
        \E b \in Down(q) :
            /\ Cardinality(Up(q)) = 2
            /\ PoisonPut(q) = 2
            /\ attr[b].expected_poison = 2
            /\ value[attr[b].received_poison] = 2
            /\ pc[b] = "done"

\* ---- C26 ------------------------------------------------------------------
\* the poison pills the Actors getting from the queue q have dequeued
PoisonGot(q) ==
    Sum([b \in 1..Len(pc) |->
           IF attr[b].inbox = q THEN hist.act[b].gotpoison ELSE 0])

C27_BoundedTerminates ==
    (Wired /\ cfg.maxsize >= 1 /\ Len(groups) >= 2 /\ NonEmptyGroups)
        ~> (rpc = "returned" /\ \A a \in Created : pc[a] = "done")

\* ---- C28 ------------------------------------------------------------------
\* C28: an Actor that is receiver and sender has put its poison pill only
\* when it has dequeued eol and every send() of its recv() calls has
\* completed, and it sends nothing afterwards; on every queue no payload of
\* a producer stands behind that producer's poison pill.
C28_PoisonLast ==
    /\ \A a \in Created :
          (receiver(a) /\ sender(a) /\ hist.act[a].poisoned = 1) =>
              /\ hist.act[a].goteol = 1
              /\ Len(hist.act[a].sent) = Len(hist.act[a].recv)
              /\ pc[a] \in {"shutdown", "done"}
    /\ \A a \in Created :
          pc[a] \in {"loop", "poison", "puteol", "recv", "leave"} =>
              hist.act[a].poisoned = 0
    /\ \A q \in Queues :
          \A i \in 1..Len(chan[q]) :
              chan[q][i].k = poison =>
                  \A j \in (i + 1)..Len(chan[q]) :
                      chan[q][j].src # chan[q][i].src

\* a Proxy has passed on two payloads and put its poison pill, which stands
\* on the queue behind one of them
C28_Witness ==
    \E a \in Created :
        /\ receiver(a) /\ sender(a)
        /\ hist.act[a].poisoned = 1
        /\ Len(hist.act[a].sent) = 2
        /\ LET s == chan[attr[a].outbox] IN
           /\ Len(s) >= 2
           /\ s[Len(s)] = Poison(a)
           /\ s[Len(s) - 1].src = a

\* ---- C29 ------------------------------------------------------------------
\* the i-th group is empty and the group after it is not
Stalled(i) ==
    i < Len(groups) /\ groups[i][2] = <<>> /\ groups[i + 1][2] # <<>>

\* C29: connect wires a pipeline with an empty group, and once it is started
\* start() never returns.
C29_NeverReturns == (Wired /\ ~NonEmptyGroups) => rpc # "returned"

\* C29 as the code has it: connect wires a pipeline with an empty group
\* without a check; the Actors of a non-empty group behind an empty one have
\* expected_poison = 0 and an inbox nobody puts on, so they never dequeue
\* poison or eol and never leave their loop, and start() never gets past
\* joining them.  (A pipeline whose empty groups are all at its end can run
\* to its end.)
C29_EmptyGroupHangs ==
    Wired =>
        \A i \in 1..Len(groups) :
            Stalled(i) =>
                /\ chan[i] = <<>>
                /\ \A b \in Range(groups[i + 1][2]) :
                       /\ attr[b].inbox = i
                       /\ attr[b].expected_poison = 0
                       /\ hist.act[b].gotpoison = 0
                       /\ hist.act[b].goteol = 0
                       /\ hist.act[b].recv = <<>>
                       /\ pc[b] \in {"created", "startup", "loop"}
                /\ rpc \notin {"_join_logthread", "returned"}

\* behind a Sender that is done and an empty group, start() waits for the
\* Receiver, which waits in its loop on its empty inbox
C29_Witness ==
    /\ rpc = "_join_actors"
    /\ Len(groups) = 3
    /\ Stalled(2)
    /\ \A a \in Range(groups[1][2]) : pc[a] = "done"
    /\ Len(chan[1]) >= 2
    /\ \A b \in Range(groups[3][2]) : pc[b] = "loop"
    /\ procs = groups[3][2]

\* ---- C30 ------------------------------------------------------------------
\* the Actor a has run the whole of run()
RanToEnd(a) ==
    /\ pc[a] = "done"
    /\ hist.act[a].startup = 1
    /\ hist.act[a].shutdown = 1
    /\ hist.act[a].poisoned = (IF sender(a) THEN 1 ELSE 0)
    /\ IF cfg.cls[a] = "Sender"
       THEN Len(hist.act[a].sent) = cfg.n
       ELSE hist.act[a].goteol = 1

\* C30: whenever handler.run() returns, with every Actor still running and
\* no payload sent or later, start() goes on to join every Actor in start
\* order and returns only when each of them has run to its end: no Actor is
\* ended or skipped for the handler's return, and the pipeline delivers
\* every payload.
C30_JoinsAfterHandler ==
    (Wired /\ cfg.handler) =>
        /\ \A a \in Created : pc[a] # "crashed"
        /\ \A a \in Created : pc[a] = "done" => RanToEnd(a)
        /\ handler.pc = "returned" =>
               /\ rpc \in {"_join_actors", "_join_logthread", "returned"}
               /\ IsSuffix(procs, StartOrder)
               /\ \A a \in Range(StartOrder) \ Range(procs) : RanToEnd(a)
        /\ rpc \in {"_join_logthread", "returned"} =>
               /\ handler.pc = "returned"
               /\ procs = <<>>
               /\ \A a \in Created : RanToEnd(a)
               /\ Len(hist.act[Terminal].recv) = cfg.n

\* handler.run() has returned while every Actor was still running, and
\* start() has returned after the Receiver behind two Proxies has got both
\* payloads
C30_Witness ==
    /\ rpc = "returned"
    /\ cfg.handler_cls = "Handler"
    /\ handler.early
    /\ Len(groups) = 3
    /\ Len(groups[2][2]) = 2
    /\ Len(hist.act[Terminal].recv) = 2
    /\ \A a \in Created : pc[a] = "done"

====
